---- MODULE Spec2Model ----
(***************************************************************************)
(* A model of abtools/utils/cluster.py: the CD-HIT wrapper (cdhit), the    *)
(* cluster-membership parser (parse_clusters, _get_cluster_ids), the       *)
(* batched identifier resolution (_chunker, _get_cluster_seqs) and the     *)
(* SQLite lookup store builder (_build_seq_db).                            *)
(*                                                                         *)
(* Text is a sequence of one-character strings, so that splitting and      *)
(* slicing are computed as Python computes them.  A call returns a record  *)
(* [exc, val]: exc is "none" for a normal return and the exception's name  *)
(* otherwise.                                                              *)
(***************************************************************************)
EXTENDS Integers, Sequences, FiniteSets, TLC

VARIABLES
    clust_blocks,   \* the cluster blocks the membership file was written from
    clust_file,     \* text of the cluster-membership file
    parse_ret,      \* outcome of the last parse_clusters call
    db,             \* the SQLite files, by path
    builds,         \* number of _build_seq_db calls made, by path
    store_ret,      \* outcome of the last _build_seq_db / _get_cluster_seqs call
    fs,             \* the files on disk written or left by cdhit
    tool_exit,      \* exit status the shell gives the cd-hit command when run
    ntemp,          \* number of temporary file names handed out
    cdhit_ret       \* outcome of the last cdhit call

vars == <<clust_blocks, clust_file, parse_ret, db, builds, store_ret,
          fs, tool_exit, ntemp, cdhit_ret>>

parse_vars == <<clust_blocks, clust_file, parse_ret>>
store_vars == <<db, builds, store_ret>>
cdhit_vars == <<fs, tool_exit, ntemp, cdhit_ret>>

----------------------------------------------------------------------------
(* Bounds of the model. *)

MaxClusters == 2    \* cluster blocks in a membership file
MaxLines == 2       \* member lines in one block
MaxRecs == 2        \* records given to one store build
MaxIds == 2         \* identifiers in one small resolution
MaxBuilds == 2      \* store builds at one location
MaxBatches == 2     \* full batches in a large resolution
MaxSeqs == 2        \* sequences given to one cdhit call
MaxCalls == 1       \* cdhit calls that create temporary files

----------------------------------------------------------------------------
(* Python values and built-ins used by the module. *)

\* None where a string is expected, and None where an object (a cursor, a
\* path) is expected
None == "<None>"

Nil == <<>>

Falsy(x) == x = None \/ x = ""

Raise(e) == [exc |-> e, val |-> <<>>]

Return(v) == [exc |-> "none", val |-> v]

Min(a, b) == IF a < b THEN a ELSE b

Max(a, b) == IF a > b THEN a ELSE b

RECURSIVE Flatten(_)
Flatten(ss) == IF ss = <<>> THEN <<>> ELSE Head(ss) \o Flatten(Tail(ss))

\* s[start:stop], with Python's treatment of negative and out-of-range indices
py_slice(s, start, stop) ==
    LET n == Len(s)
        norm(i) == IF i < 0 THEN Max(n + i, 0) ELSE Min(i, n)
        a == norm(start)
        b == norm(stop)
    IN  IF a < b THEN SubSeq(s, a + 1, b) ELSE <<>>

starts_at(s, i, sep) ==
    /\ i + Len(sep) - 1 <= Len(s)
    /\ \A j \in 1..Len(sep) : s[i + j - 1] = sep[j]

\* index of the first occurrence of sep in s at or after i, 0 when there is none
RECURSIVE str_find(_, _, _)
str_find(s, sep, i) ==
    IF i + Len(sep) - 1 > Len(s) THEN 0
    ELSE IF starts_at(s, i, sep) THEN i
    ELSE str_find(s, sep, i + 1)

\* s.split(sep): always at least one piece
RECURSIVE str_split(_, _)
str_split(s, sep) ==
    LET i == str_find(s, sep, 1)
    IN  IF i = 0 THEN <<s>>
        ELSE <<SubSeq(s, 1, i - 1)>>
             \o str_split(SubSeq(s, i + Len(sep), Len(s)), sep)

is_space(c) == c \in {" ", "\t", "\n", "\r"}

RECURSIVE skip_spaces(_, _)
skip_spaces(s, i) ==
    IF i > Len(s) \/ ~is_space(s[i]) THEN i ELSE skip_spaces(s, i + 1)

RECURSIVE skip_token(_, _)
skip_token(s, i) ==
    IF i > Len(s) \/ is_space(s[i]) THEN i ELSE skip_token(s, i + 1)

\* s.split(): the maximal runs of non-whitespace characters
RECURSIVE str_split_ws(_)
str_split_ws(s) ==
    LET b == skip_spaces(s, 1)
        e == skip_token(s, b)
    IN  IF b > Len(s) THEN <<>>
        ELSE <<SubSeq(s, b, e - 1)>> \o str_split_ws(SubSeq(s, e, Len(s)))

\* Binding of a call's arguments to a def's parameters: too many positional
\* arguments, an unknown keyword or a missing required parameter is a TypeError.
py_call_ok(params, nrequired, npos, kwnames) ==
    /\ npos <= Len(params)
    /\ kwnames \subseteq {params[i] : i \in (npos + 1)..Len(params)}
    /\ \A i \in 1..nrequired : i <= npos \/ params[i] \in kwnames

\* a path: its directory, its file name (as text) and its suffix
path_join(direc, name) == <<direc, name, "">>

----------------------------------------------------------------------------
(* abtools.utils.sequence.Sequence: the normalizer.  An input item carries  *)
(* its shape; the accepted shapes give a record with its id and sequence.   *)

SequenceShapes == {"pair", "record", "canonical"}

Sequence(s) ==
    IF s.shape \in SequenceShapes
    THEN Return([id |-> s.id, sequence |-> s.sequence])
    ELSE Raise("UnsupportedInputShape")

\* Sequence.fasta(): the '>id' header line, a newline, the sequence line
fasta(s) == <<">">> \o s.id \o <<"\n">> \o s.sequence

----------------------------------------------------------------------------
(* The SQLite file behind one path: the table seqs (its rows in rowid      *)
(* order) and the names of the indexes on it.  A path never connected to   *)
(* is an empty database.                                                   *)

EmptyDb == [has_table |-> FALSE, rows |-> <<>>, indexes |-> {}]

SqlOk(d) == [exc |-> "none", db |-> d]

SqlError(d) == [exc |-> "OperationalError", db |-> d]

\* A DROP TABLE that left the table's indexes in the schema.
sql_drop_table_keep_index(d) == SqlOk([EmptyDb EXCEPT !.indexes = d.indexes])

\* DROP TABLE IF EXISTS seqs: the table goes, and with it every index on it
sql_drop_table_if_exists(d) == SqlOk(EmptyDb)

\* CREATE TABLE seqs (id text, sequence text): no key, no uniqueness
sql_create_table(d) ==
    IF d.has_table THEN SqlError(d)
    ELSE SqlOk([d EXCEPT !.has_table = TRUE, !.rows = <<>>])

RECURSIVE Upsert(_, _)
Upsert(rows, params) ==
    IF params = <<>> THEN rows
    ELSE Upsert(SelectSeq(rows, LAMBDA r : r[1] # Head(params)[1]) \o <<Head(params)>>,
                Tail(params))

\* An INSERT OR REPLACE into a table keyed by id: the last record of an id wins.
sql_insert_or_replace_many(d, params) ==
    IF ~d.has_table THEN SqlError(d)
    ELSE SqlOk([d EXCEPT !.rows = Upsert(@, params)])

\* executemany(INSERT INTO seqs VALUES (?,?)): one new row per parameter pair
sql_insert_many(d, params) ==
    IF ~d.has_table THEN SqlError(d)
    ELSE SqlOk([d EXCEPT !.rows = @ \o params])

\* CREATE INDEX seq_index ON seqs (id): fails when the name is taken
sql_create_index(d) ==
    IF ~d.has_table \/ "seq_index" \in d.indexes THEN SqlError(d)
    ELSE SqlOk([d EXCEPT !.indexes = @ \cup {"seq_index"}])

\* The SELECT without its WHERE clause.
sql_select_all(d, chunk) ==
    IF ~d.has_table THEN Raise("OperationalError") ELSE Return(d.rows)

\* SELECT seqs.id, seqs.sequence FROM seqs WHERE seqs.id IN (chunk): every
\* row whose id is one of the parameters, each row once
sql_select_in(d, chunk) ==
    LET wanted == {chunk[j] : j \in 1..Len(chunk)}
    IN  IF ~d.has_table THEN Raise("OperationalError")
        ELSE Return(SelectSeq(d.rows, LAMBDA r : r[1] \in wanted))

SeqDbName == <<"s", "e", "q", "_", "d", "b">>

\* The module is Python 2 code (xrange): its sqlite3 commits the pending
\* INSERTs before the CREATE INDEX statement, so every statement's effect is
\* in the file when the call returns.  The returned cursor and the returned
\* path both stand for the file at db_path.
_build_seq_db(dbs, seqs, direc) ==
    LET dir == IF Falsy(direc) THEN "/tmp" ELSE direc
        db_path == path_join(dir, SeqDbName)
        params == [i \in 1..Len(seqs) |-> <<seqs[i].id, seqs[i].sequence>>]
        \* a statement that raises ends the build with the file as it then is
        s1 == sql_drop_table_if_exists(dbs[db_path])
        s2 == IF s1.exc = "none" THEN sql_create_table(s1.db) ELSE s1
        s3 == IF s2.exc = "none" THEN sql_insert_many(s2.db, params) ELSE s2
        s4 == IF s3.exc = "none" THEN sql_create_index(s3.db) ELSE s3
    IN  [exc |-> s4.exc,
         dbs |-> [dbs EXCEPT ![db_path] = s4.db],
         val |-> <<db_path, db_path>>]

----------------------------------------------------------------------------
(* Batched resolution of one cluster's identifiers. *)

ChunkSize == 900

\* A chunker that stops at the last full chunk.
_chunker_no_tail(l, size) ==
    [k \in 1..(Len(l) \div size) |->
        py_slice(l, (k - 1) * size, (k - 1) * size + size)]

_chunker(l, size) ==
    [k \in 1..((Len(l) + size - 1) \div size) |->
        py_slice(l, (k - 1) * size, (k - 1) * size + size)]

\* seq_db is the cursor _build_seq_db returned: it reads the file at its path
_get_cluster_seqs(dbs, seq_ids, seq_db) ==
    LET chunks == _chunker(seq_ids, ChunkSize)
        looked == [k \in 1..Len(chunks) |-> sql_select_in(dbs[seq_db], chunks[k])]
        seqs == Flatten([k \in 1..Len(chunks) |-> looked[k].val])
        wrapped == [i \in 1..Len(seqs) |->
                       Sequence([shape |-> "pair", id |-> seqs[i][1],
                                 sequence |-> seqs[i][2]]).val]
    IN  IF \E k \in 1..Len(chunks) : looked[k].exc # "none"
        THEN [exc |-> "OperationalError", val |-> <<>>, queries |-> <<chunks[1]>>]
        ELSE [exc |-> "none", val |-> wrapped, queries |-> chunks]

----------------------------------------------------------------------------
(* The cluster-membership parser. *)

\* The identifier cut as [1:-2]: one character of the '...' is left on it.
_get_cluster_ids_trim2(cluster) ==
    LET lines == SelectSeq(py_slice(cluster, 1, Len(cluster)),
                           LAMBDA c : c # <<>>)
        toks == [i \in 1..Len(lines) |-> str_split_ws(lines[i])]
    IN  IF \E i \in 1..Len(lines) : Len(toks[i]) < 3
        THEN Raise("IndexError")
        ELSE Return([i \in 1..Len(lines) |-> py_slice(toks[i][3], 1, -2)])

_get_cluster_ids(cluster) ==
    LET lines == SelectSeq(py_slice(cluster, 1, Len(cluster)),
                           LAMBDA c : c # <<>>)
        toks == [i \in 1..Len(lines) |-> str_split_ws(lines[i])]
    IN  IF \E i \in 1..Len(lines) : Len(toks[i]) < 3
        THEN Raise("IndexError")
        ELSE Return([i \in 1..Len(lines) |-> py_slice(toks[i][3], 1, -3)])

parse_clusters(dbs, text, seq_db) ==
    LET blocks == str_split(text, <<"\n", ">">>)
        raw_clusters == [k \in 1..Len(blocks) |-> str_split(blocks[k], <<"\n">>)]
        got == [k \in 1..Len(blocks) |-> _get_cluster_ids(raw_clusters[k])]
        ids == [k \in 1..Len(blocks) |-> got[k].val]
    IN  IF \E k \in 1..Len(blocks) : got[k].exc # "none"
        THEN Raise("IndexError")
        ELSE IF seq_db = Nil THEN Return(ids)
        \* the call is written _get_cluster_seqs(c): one positional argument
        ELSE IF ids # <<>> /\ ~py_call_ok(<<"seq_ids", "seq_db">>, 2, 1, {})
        THEN Raise("TypeError")
        ELSE Return([k \in 1..Len(ids) |->
                        _get_cluster_seqs(dbs, ids[k], seq_db).val])

----------------------------------------------------------------------------
(* The membership file CD-HIT writes: per cluster a header line            *)
(* '>Cluster k', then one line per member, 'n<TAB>LENnt, >ID... REST',     *)
(* every line ended by a newline.                                          *)

DigitChar(i) == <<"0", "1", "2", "3", "4", "5", "6", "7", "8", "9">>[i + 1]

IdA == <<"a">>

IdB == <<"b", "1">>

IdC == <<"c">>

MemberTokens(id, centroid) ==
    <<<<"0">>, <<"4", "n", "t", ",">>, <<">">> \o id \o <<".", ".", ".">>>>
    \o (IF centroid THEN <<<<"*">>>>
        ELSE <<<<"a", "t">>, <<"9", "8", ".", "0", "0", "%">>>>)

MemberLine(tokens) ==
    tokens[1] \o <<"\t">> \o tokens[2]
    \o Flatten([i \in 1..(Len(tokens) - 2) |-> <<" ">> \o tokens[i + 2]])

EmptyLine == [kind |-> "empty", tokens |-> <<>>]

\* the i-th member line of a block: the representative ('*') and the other
\* members ('at 98.00%') alternate, starting with either
Member(i, first) ==
    IF (i % 2 = 1) = first
    THEN [kind |-> "member", tokens |-> MemberTokens(IdA, TRUE)]
    ELSE [kind |-> "member", tokens |-> MemberTokens(IdB, FALSE)]

\* a block of n member lines; blank = 1 puts an empty line before the first
\* member line, blank = 2 after it
Body(n, blank, first) ==
    (IF blank = 1 THEN <<EmptyLine>> ELSE <<>>)
    \o <<Member(1, first)>>
    \o (IF blank = 2 THEN <<EmptyLine>> ELSE <<>>)
    \o [i \in 1..(n - 1) |-> Member(i + 1, first)]

LineText(l) == IF l.kind = "member" THEN MemberLine(l.tokens) ELSE <<>>

SeqsUpTo(S, n) == UNION {[1..m -> S] : m \in 0..n}

Bodies ==
    {Body(n, blank, first) : n \in 1..MaxLines, blank \in 0..2, first \in BOOLEAN}

HeaderLine(k) ==
    <<">", "C", "l", "u", "s", "t", "e", "r", " ", DigitChar(k - 1)>>

BlockText(k, body) ==
    HeaderLine(k) \o <<"\n">>
    \o Flatten([i \in 1..Len(body) |-> LineText(body[i]) \o <<"\n">>])

\* stray: a line holding only a space follows the last member line
ClusterFileText(blocks, stray) ==
    Flatten([k \in 1..Len(blocks) |-> BlockText(k, blocks[k])])
    \o (IF stray THEN <<" ", "\n">> ELSE <<>>)

----------------------------------------------------------------------------
(* Parsing: a membership file is on disk, parse_clusters is called on it   *)
(* without or with a cursor.                                               *)

NotCalled == [op |-> "none", exc |-> "none", val |-> <<>>]

TmpDb == path_join("/tmp", SeqDbName)

Dirs == {"/tmp"}

DbPaths == {path_join(d, SeqDbName) : d \in Dirs}

SeqX == <<"A", "C">>

SeqY == <<"T", "T">>

Rec(id, sequence) == [id |-> id, sequence |-> sequence]

NoDbs == [p \in DbPaths |-> EmptyDb]

IdleStore ==
    /\ db = NoDbs
    /\ builds = [p \in DbPaths |-> 0]
    /\ store_ret = NotCalled

\* a store built once, at the default location, holding both member ids
BuiltStore ==
    /\ db = _build_seq_db(NoDbs, <<Rec(IdA, SeqX), Rec(IdB, SeqY)>>, None).dbs
    /\ builds = [p \in DbPaths |-> IF p = TmpDb THEN 1 ELSE 0]
    /\ store_ret = NotCalled

IdleCdhit ==
    /\ fs = {}
    /\ tool_exit = 0
    /\ ntemp = 0
    /\ cdhit_ret = NotCalled

InitParse ==
    /\ clust_blocks \in [blocks : SeqsUpTo(Bodies, MaxClusters), stray : BOOLEAN]
    /\ clust_blocks.stray => clust_blocks.blocks # <<>>
    /\ clust_file = ClusterFileText(clust_blocks.blocks, clust_blocks.stray)
    /\ parse_ret = NotCalled
    /\ BuiltStore
    /\ IdleCdhit

ParseClusters ==
    /\ parse_ret' = [op |-> "ids"] @@ parse_clusters(db, clust_file, Nil)
    /\ UNCHANGED <<clust_blocks, clust_file, store_vars, cdhit_vars>>

ParseClustersWithDb ==
    /\ parse_ret' = [op |-> "seqs"] @@ parse_clusters(db, clust_file, TmpDb)
    /\ UNCHANGED <<clust_blocks, clust_file, store_vars, cdhit_vars>>

NextParse == ParseClusters \/ ParseClustersWithDb

SpecParse == InitParse /\ [][NextParse]_vars

----------------------------------------------------------------------------
(* The store: builds at the default and at a given directory, and          *)
(* resolutions of short identifier lists through a cursor of a built store.*)

IdleParse ==
    /\ clust_blocks = [blocks |-> <<>>, stray |-> FALSE]
    /\ clust_file = <<>>
    /\ parse_ret = NotCalled

RecPool == {Rec(IdA, SeqX), Rec(IdA, SeqY), Rec(IdB, SeqX)}

IdPool == {IdA, IdB}

DirecArgs == {None, ""} \cup Dirs

InitStore == IdleParse /\ IdleStore /\ IdleCdhit

BuildSeqDb ==
    \E seqs \in SeqsUpTo(RecPool, MaxRecs), direc \in DirecArgs :
        LET r == _build_seq_db(db, seqs, direc)
            path == r.val[2]
        IN  /\ builds[path] < MaxBuilds
            /\ db' = r.dbs
            /\ builds' = [builds EXCEPT ![path] = @ + 1]
            /\ store_ret' = [op |-> "build", exc |-> r.exc, val |-> <<>>,
                             path |-> path, seqs |-> seqs, ids |-> <<>>,
                             queries |-> <<>>, old_rows |-> db[path].rows]
            /\ UNCHANGED <<parse_vars, cdhit_vars>>

Resolve(ids, path) ==
    LET r == _get_cluster_seqs(db, ids, path)
    IN  /\ builds[path] > 0
        /\ store_ret' = [op |-> "resolve", exc |-> r.exc, val |-> r.val,
                         path |-> path, seqs |-> <<>>, ids |-> ids,
                         queries |-> r.queries, old_rows |-> <<>>]
        /\ UNCHANGED <<db, builds, parse_vars, cdhit_vars>>

GetClusterSeqs ==
    \E ids \in SeqsUpTo(IdPool, MaxIds), path \in DbPaths : Resolve(ids, path)

NextStore == BuildSeqDb \/ GetClusterSeqs

SpecStore == InitStore /\ [][NextStore]_vars

----------------------------------------------------------------------------
(* Large resolutions: a store built once from the records numbered 1..m    *)
(* (one of them possibly left out), then a list of the identifiers 1..n    *)
(* with n around the multiples of the batch size.                          *)

RECURSIVE Digits(_)
Digits(i) ==
    IF i < 10 THEN <<DigitChar(i)>> ELSE Digits(i \div 10) \o <<DigitChar(i % 10)>>

BatchSizes ==
    {n \in {k * ChunkSize + d : k \in 0..MaxBatches, d \in {-1, 0, 1}} : n >= 0}

\* the identifiers 1..n; with again, the last one is the first one once more
NumberedIds(n, again) ==
    [i \in 1..n |-> IF again /\ i = n THEN Digits(1) ELSE Digits(i)]

\* the records 1..m without the one numbered hole; with dup, a second record
\* of identifier 1 follows them
NumberedRecs(m, hole, dup) ==
    LET keep == SelectSeq([i \in 1..m |-> i], LAMBDA i : i # hole)
    IN  [j \in 1..Len(keep) |->
            Rec(Digits(keep[j]), IF keep[j] % 2 = 0 THEN SeqX ELSE SeqY)]
        \o (IF dup THEN <<Rec(Digits(1), SeqX)>> ELSE <<>>)

Holes == {0, ChunkSize}

InitBatch ==
    /\ IdleParse
    /\ IdleCdhit
    /\ \E m \in BatchSizes, hole \in Holes, dup \in BOOLEAN :
          /\ hole <= m
          /\ dup => m >= 1 /\ hole # 1
          /\ db = _build_seq_db(NoDbs, NumberedRecs(m, hole, dup), None).dbs
    /\ builds = [p \in DbPaths |-> IF p = TmpDb THEN 1 ELSE 0]
    /\ store_ret = NotCalled

GetClusterSeqsBatch ==
    /\ store_ret.op = "none"
    /\ \E n \in BatchSizes, again \in BOOLEAN :
          /\ again => n >= 2
          /\ Resolve(NumberedIds(n, again), TmpDb)

NextBatch == GetClusterSeqsBatch

SpecBatch == InitBatch /\ [][NextBatch]_vars

----------------------------------------------------------------------------
(* cdhit: the CD-HIT run.  Files are records [path, content]. *)

\* the names bound in the module's namespace once it is imported; no
\* built-in is called log
ModuleGlobals ==
    {"print_function", "logging", "os", "sqlite3", "sp", "sys", "tempfile",
     "time", "SeqIO", "Sequence", "logger", "Cluster", "cdhit",
     "parse_centroids", "parse_clusters", "_chunker", "_get_cluster_seqs",
     "_get_cluster_ids", "_make_cdhit_input", "_build_seq_db"}

HomeDir == "/home/user"

\* os.path.expanduser
expanduser(path) == IF path[1] = "~" THEN <<HomeDir, path[2], path[3]>> ELSE path

\* tempfile.NamedTemporaryFile(dir=temp_dir, delete=False): a new, empty file
\* under a name not used before
temp_path(temp_dir, k) ==
    <<IF Falsy(temp_dir) THEN "/tmp" ELSE temp_dir, <<"t", "m", "p">> \o Digits(k), "">>

write_file(files, path, content) ==
    {f \in files : f.path # path} \cup {[path |-> path, content |-> content]}

unlink(files, path) == {f \in files : f.path # path}

RECURSIVE str_join(_, _)
str_join(sep, parts) ==
    IF parts = <<>> THEN <<>>
    ELSE IF Len(parts) = 1 THEN parts[1]
    ELSE parts[1] \o sep \o str_join(sep, Tail(parts))

_make_cdhit_input(files, seqs, temp_dir, k) ==
    LET ifile == temp_path(temp_dir, k)
        fastas == [i \in 1..Len(seqs) |-> fasta(seqs[i])]
    IN  [files |-> write_file(files, ifile, str_join(<<"\n">>, fastas)),
         name |-> ifile]

\* what the cd-hit command leaves behind when the shell runs it: on exit
\* status 0 the centroid file and the membership file
run_cdhit(files, ofile, status) ==
    IF status = 0
    THEN write_file(write_file(files, ofile, <<"centroids">>),
                    <<ofile[1], ofile[2], ".clstr">>, <<"clusters">>)
    ELSE files

CdhitOutcome(exc, val, files, k, dbs, ifile, runs) ==
    [exc |-> exc, val |-> val, files |-> files, ntemp |-> k, dbs |-> dbs,
     ifile |-> ifile, runs |-> runs]

cdhit(dbs, files, k, status, seqs_in, out_file, temp_dir, make_db) ==
    LET made == [i \in 1..Len(seqs_in) |-> Sequence(seqs_in[i])]
        seqs == [i \in 1..Len(seqs_in) |-> made[i].val]
        k1 == IF out_file = Nil THEN k + 1 ELSE k
        ofile == IF out_file = Nil THEN temp_path(temp_dir, k1)
                 ELSE expanduser(out_file)
        files1 == IF out_file = Nil THEN write_file(files, ofile, <<>>) ELSE files
        input == _make_cdhit_input(files1, seqs, temp_dir, k1 + 1)
        ifile == input.name
        \* sp.Popen(cdhit_cmd, shell=True, stdout=log); cluster.communicate():
        \* the exit status is not read
        files2 == run_cdhit(input.files, ofile, status)
        files3 == unlink(files2, ifile)
        cfile == <<ofile[1], ofile[2], ".clstr">>
        built == _build_seq_db(dbs, seqs, temp_dir)
    IN  IF \E i \in 1..Len(seqs_in) : made[i].exc # "none"
        THEN CdhitOutcome("UnsupportedInputShape", <<>>, files, k, dbs, Nil, 0)
        ELSE IF "log" \notin ModuleGlobals
        THEN CdhitOutcome("NameError", <<>>, input.files, k1 + 1, dbs, ifile, 0)
        ELSE IF ~make_db
        THEN CdhitOutcome("none", <<ofile, cfile>>, files3, k1 + 1, dbs, ifile, 1)
        \* the call is written _build_seq_db(seqs, temp_dir=temp_dir)
        ELSE IF ~py_call_ok(<<"seqs", "direc">>, 1, 1, {"temp_dir"})
        THEN CdhitOutcome("TypeError", <<>>, files3, k1 + 1, dbs, ifile, 1)
        ELSE IF built.exc # "none"
        THEN CdhitOutcome(built.exc, <<>>, files3, k1 + 1, built.dbs, ifile, 1)
        ELSE CdhitOutcome("none", <<ofile, cfile>> \o built.val, files3, k1 + 1,
                          built.dbs, ifile, 1)

ExitStatuses == {0, 1, 127}

ItemPool ==
    {[shape |-> "pair", id |-> IdA, sequence |-> SeqX],
     [shape |-> "canonical", id |-> IdB, sequence |-> SeqY],
     [shape |-> "number", id |-> IdC, sequence |-> SeqX]}

OutFiles == {Nil, <<"/data", <<"o", "u", "t">>, "">>, <<"~", <<"o", "u", "t">>, "">>}

InitCdhit ==
    /\ IdleParse
    /\ IdleStore
    /\ fs = {}
    /\ tool_exit \in ExitStatuses
    /\ ntemp = 0
    /\ cdhit_ret = NotCalled

Cdhit ==
    \E seqs_in \in SeqsUpTo(ItemPool, MaxSeqs), out_file \in OutFiles,
       temp_dir \in {None, "/data"}, make_db \in BOOLEAN :
        LET r == cdhit(db, fs, ntemp, tool_exit, seqs_in, out_file, temp_dir, make_db)
        IN  /\ ntemp + 2 <= 2 * MaxCalls
            /\ fs' = r.files
            /\ ntemp' = r.ntemp
            /\ db' = r.dbs
            /\ cdhit_ret' = [op |-> "cdhit", exc |-> r.exc, val |-> r.val,
                             seqs_in |-> seqs_in, make_db |-> make_db,
                             ifile |-> r.ifile, runs |-> r.runs]
            /\ UNCHANGED <<parse_vars, builds, store_ret, tool_exit>>

NextCdhit == Cdhit

SpecCdhit == InitCdhit /\ [][NextCdhit]_vars

----------------------------------------------------------------------------
(* Properties of the parser, under SpecParse. *)

\* a token without its first and its last three characters
TrimToken(t) == SubSeq(t, 2, Len(t) - 3)

\* what the member lines of one block name, in line order
MemberIds(body) ==
    LET ms == SelectSeq(body, LAMBDA l : l.kind = "member")
    IN  [i \in 1..Len(ms) |-> TrimToken(ms[i].tokens[3])]

ExpectedGroups ==
    [k \in 1..Len(clust_blocks.blocks) |-> MemberIds(clust_blocks.blocks[k])]

\* the file holds only header lines, member lines and empty lines
WellFormedFile == ~clust_blocks.stray

\* C1, as stated: on a well-formed file of K >= 0 blocks, parse_clusters without
\* a store returns exactly K groups, each non-empty, groups in file order and
\* identifiers in member-line order.
C1_Original ==
    (parse_ret.op = "ids" /\ WellFormedFile) =>
        /\ parse_ret.exc = "none"
        /\ Len(parse_ret.val) = Len(clust_blocks.blocks)
        /\ \A k \in 1..Len(parse_ret.val) : parse_ret.val[k] # <<>>
        /\ parse_ret.val = ExpectedGroups

C3_Original ==
    (parse_ret.op = "seqs" /\ WellFormedFile) =>
        /\ parse_ret.exc = "none"
        /\ Len(parse_ret.val) = Len(ExpectedGroups)
        /\ \A k \in 1..Len(ExpectedGroups) :
              parse_ret.val[k] = _get_cluster_seqs(db, ExpectedGroups[k], TmpDb).val

----------------------------------------------------------------------------
(* Properties of the resolution, under SpecBatch. *)

Resolved == store_ret.op = "resolve"

\* contains_all: the store has a row for every listed identifier;
\* no_repeat: no identifier is listed twice;
\* one_row_each: no listed identifier is on more than one row of the store
ListAndStore ==
    LET listed == {store_ret.ids[i] : i \in 1..Len(store_ret.ids)}
        matching == SelectSeq(db[store_ret.path].rows, LAMBDA r : r[1] \in listed)
        held == {matching[i][1] : i \in 1..Len(matching)}
    IN  [contains_all |-> listed \subseteq held,
         no_repeat |-> Cardinality(listed) = Len(store_ret.ids),
         one_row_each |-> Cardinality(held) = Len(matching)]

\* C4, as stated: for every identifier list and every built store, as many
\* records as identifiers when the store contains them all, strictly fewer when
\* it lacks one, and no error.
C4_Original ==
    Resolved =>
        LET f == ListAndStore
        IN  /\ store_ret.exc = "none"
            /\ f.contains_all => Len(store_ret.val) = Len(store_ret.ids)
            /\ ~f.contains_all => Len(store_ret.val) < Len(store_ret.ids)

\* C4, amended: resolution raises no error; for a list that names no identifier
\* twice and a store that holds no listed identifier on more than one row, it
\* returns as many records as identifiers when the store contains them all and
\* strictly fewer when it lacks one.
C4_DistinctCounts ==
    Resolved =>
        LET f == ListAndStore
        IN  /\ store_ret.exc = "none"
            /\ (f.no_repeat /\ f.one_row_each) =>
                  /\ f.contains_all => Len(store_ret.val) = Len(store_ret.ids)
                  /\ ~f.contains_all => Len(store_ret.val) < Len(store_ret.ids)

\* 901 distinct identifiers resolved against a store that lacks one of them
C4_Witness ==
    /\ Resolved
    /\ Len(store_ret.ids) = ChunkSize + 1
    /\ Len(store_ret.val) = ChunkSize
    /\ LET f == ListAndStore
       IN  f.no_repeat /\ f.one_row_each /\ ~f.contains_all

NumBatches(n) == IF n % ChunkSize = 0 THEN n \div ChunkSize ELSE n \div ChunkSize + 1

Batch(k) ==
    SubSeq(store_ret.ids, ChunkSize * (k - 1) + 1,
           Min(ChunkSize * k, Len(store_ret.ids)))

BatchRecords(k) ==
    LET rows == sql_select_in(db[store_ret.path], Batch(k)).val
    IN  [i \in 1..Len(rows) |-> Rec(rows[i][1], rows[i][2])]

\* C5: n identifiers are looked up in ceil(n / 900) queries, none for n = 0;
\* the k-th query holds the k-th run of at most 900 consecutive identifiers,
\* so the queries in order make up the list; the result is the per-batch
\* results in batch order; 900 identifiers take one query, 901 take two, of
\* 900 and of 1.
C5_Batches ==
    Resolved =>
        LET n == Len(store_ret.ids)
            q == store_ret.queries
        IN  /\ store_ret.exc = "none"
            /\ Len(q) = NumBatches(n)
            /\ \A k \in 1..Len(q) : Len(q[k]) \in 1..ChunkSize /\ q[k] = Batch(k)
            /\ Flatten(q) = store_ret.ids
            /\ store_ret.val = Flatten([k \in 1..NumBatches(n) |-> BatchRecords(k)])
            /\ n = 900 => Len(q) = 1
            /\ n = 901 => Len(q) = 2 /\ Len(q[1]) = 900 /\ Len(q[2]) = 1

\* 901 identifiers, all in the store, resolved in two queries
C5_Witness ==
    /\ Resolved
    /\ Len(store_ret.ids) = 901
    /\ Len(store_ret.queries) = 2
    /\ Len(store_ret.val) = 901

----------------------------------------------------------------------------
(* Properties of the store builder, under SpecStore. *)

Built == store_ret.op = "build"

InputRows == [i \in 1..Len(store_ret.seqs) |->
                 <<store_ret.seqs[i].id, store_ret.seqs[i].sequence>>]

InputIds == {store_ret.seqs[i].id : i \in 1..Len(store_ret.seqs)}

RowsOf(rows, id) == SelectSeq(rows, LAMBDA r : r[1] = id)

LastOf(rows, id) == RowsOf(rows, id)[Len(RowsOf(rows, id))]

\* C8, as stated: after a build, every identifier of the input, also one given
\* more than once, is on exactly one row, which carries the sequence of the
\* last record of that identifier.
C8_Original ==
    (Built /\ store_ret.exc = "none") =>
        \A id \in InputIds :
            RowsOf(db[store_ret.path].rows, id) = <<LastOf(InputRows, id)>>

\* C8, amended: after a build the store holds one row per input record, in
\* input order, also for records that share an identifier; a lookup of an
\* identifier returns all its records.
C8_RowPerRecord ==
    (Built /\ store_ret.exc = "none") =>
        /\ db[store_ret.path].rows = InputRows
        /\ \A id \in InputIds :
              sql_select_in(db[store_ret.path], <<id>>).val = RowsOf(InputRows, id)

\* a build from two records of one identifier: both rows are in the store
C8_Witness ==
    /\ Built
    /\ store_ret.seqs = <<Rec(IdA, SeqX), Rec(IdA, SeqY)>>
    /\ Len(sql_select_in(db[store_ret.path], <<IdA>>).val) = 2

\* C9: every build succeeds, also a later one at a location built before, and
\* leaves the table with exactly the rows of its own records, indexed.
C9_FreshStore ==
    Built =>
        /\ store_ret.exc = "none"
        /\ db[store_ret.path].has_table
        /\ db[store_ret.path].rows = InputRows
        /\ db[store_ret.path].indexes = {"seq_index"}

\* a second build at a location whose earlier build left other rows
C9_Witness ==
    /\ Built
    /\ builds[store_ret.path] = 2
    /\ store_ret.old_rows = <<<<IdA, SeqX>>, <<IdB, SeqX>>>>
    /\ db[store_ret.path].rows = <<<<IdA, SeqY>>>>

----------------------------------------------------------------------------
(* Properties of cdhit, under SpecCdhit. *)

Called == cdhit_ret.op = "cdhit"

\* every input item has a shape the normalizer accepts
ValidInput ==
    \A i \in 1..Len(cdhit_ret.seqs_in) : cdhit_ret.seqs_in[i].shape \in SequenceShapes

InputOnDisk == \E f \in fs : f.path = cdhit_ret.ifile

\* C6, as stated: where the cd-hit command exits non-zero (127: not found),
\* cdhit fails with ClusteringToolError, returns no paths and runs the tool
\* at most once.
C6_Original ==
    (Called /\ ValidInput /\ tool_exit # 0) =>
        /\ cdhit_ret.exc = "ClusteringToolError"
        /\ cdhit_ret.val = <<>>
        /\ cdhit_ret.runs <= 1

NormalizedRows ==
    [i \in 1..Len(cdhit_ret.seqs_in) |->
        <<cdhit_ret.seqs_in[i].id, cdhit_ret.seqs_in[i].sequence>>]

\* C10, as stated: with make_db and a tool run that succeeds, cdhit returns
\* the centroid path, that path with '.clstr', a store handle and the store
\* location, and the store holds the normalized input records.
C10_Original ==
    (Called /\ ValidInput /\ cdhit_ret.make_db /\ tool_exit = 0) =>
        /\ cdhit_ret.exc = "none"
        /\ Len(cdhit_ret.val) = 4
        /\ cdhit_ret.val[2] = <<cdhit_ret.val[1][1], cdhit_ret.val[1][2], ".clstr">>
        /\ db[cdhit_ret.val[4]].rows = NormalizedRows

====
